---- MODULE Spec2Model ----
(***************************************************************************)
(* The agent orchestration engine of services/AgentOrchestrator.js, with   *)
(* the callers that touch its state: the REST routes of routes/agents.js   *)
(* (pause, resume, settings), the socket handler of server-simple.js and   *)
(* the user_agents table of the database schema.                           *)
(*                                                                         *)
(* JavaScript runs one task at a time; an async function gives up the      *)
(* thread at each await.  Every action below is one such uninterrupted     *)
(* segment of a handler, so the interleavings of the model are the         *)
(* interleavings of the event loop.                                        *)
(***************************************************************************)
EXTENDS Integers, Sequences, FiniteSets, Bags, TLC

\* ------------------------------------------------------------------ bounds
MaxProcs  == 2     \* handler invocations in flight at once
MaxEvents == 4     \* things the environment does: requests (API calls, routes,
                   \* socket messages), cron firings, rejected database statements

Users    == {"u1", "u2"}
Payloads == {"r1", "r2"}    \* what an execution unit may return

\* ------------------------------------------------------- the agents table
\* CREATE TABLE agents: id is a UUID, type one of the four type names.
UuidCatalog ==
  { [id |-> "a1", type |-> "meeting-agent", is_active |-> TRUE],
    [id |-> "a2", type |-> "task-router",   is_active |-> TRUE] }

\* The orchestrator takes any db object; a catalog whose ids are the type
\* names is the only one under which the rule table can be hit at all.
NamedCatalog ==
  { [id |-> "meeting-agent", type |-> "meeting-agent", is_active |-> TRUE],
    [id |-> "task-router",   type |-> "task-router",   is_active |-> TRUE] }

Catalogs == {UuidCatalog, NamedCatalog}

\* An agent id no row of the agents table has.
UnknownAgent == "a9"

AgentIds == {r.id : r \in UuidCatalog \cup NamedCatalog} \cup {UnknownAgent}

\* getAgentClass: the type names that have a class.
AgentClasses == {"meeting-agent", "mail-summarizer", "report-generator", "task-router"}

getAgentClass(type) == IF type \in AgentClasses THEN type ELSE "undefined"

\* setupCoordinationRules: the rule table, keyed by TYPE NAME.
coordinationRules ==
  [t \in AgentClasses |->
     CASE t = "meeting-agent"    -> [dependencies |-> {"mail-summarizer"},
                                     conflicts    |-> {"task-router"},
                                     priority     |-> 1]
       [] t = "mail-summarizer"  -> [dependencies |-> {},
                                     conflicts    |-> {},
                                     priority     |-> 2]
       [] t = "report-generator" -> [dependencies |-> {"meeting-agent", "mail-summarizer", "task-router"},
                                     conflicts    |-> {},
                                     priority     |-> 3]
       [] t = "task-router"      -> [dependencies |-> {"mail-summarizer"},
                                     conflicts    |-> {"meeting-agent"},
                                     priority     |-> 2]]

\* user_agents.auto_run_interval INTEGER DEFAULT 30 (minutes)
AutoRunIntervalDefault == 30

VARIABLES
  agentsTable,     \* rows of the agents table (fixed after Init)
  initPc,          \* "pending" while initializeAgents awaits its query
  agents,          \* this.agents: ids of the loaded catalog entries
  agentInstances,  \* this.agentInstances: instance id -> BaseAgent object
  tracker,         \* performanceTracker.metrics: instance id -> counters
  user_agents,     \* the user_agents table: <<user, agent>> -> row, or NoRow
  now,             \* minutes since start (one cron firing per minute)
  ioLog,           \* bag of events emitted on the socket.io server
  emitted,         \* bag of events emitted on the orchestrator EventEmitter
  procs,           \* handler invocations in flight, by slot
  users,           \* the users there are (fixed after Init)
  arrivals,        \* when requests may arrive: "any" time, "one" at a time, or
                   \* one at a time but for "runs", which may overlap (fixed
                   \* after Init)
  executed,        \* instance id -> how many times execute returned and threw
  events           \* things the environment has done so far

vars == <<agentsTable, initPc, agents, agentInstances, tracker, user_agents,
          now, ioLog, emitted, procs, users, arrivals, executed, events>>

\* ------------------------------------------------------------ data shapes
Keys == Users \X AgentIds

\* A user_agents row as CREATE TABLE user_agents makes it (status 'idle',
\* last_run NULL, auto_run_enabled false, auto_run_interval 30).  last_run
\* is {} for NULL and {t} otherwise.
NoRow == [exists |-> FALSE, status |-> "idle", last_run |-> {},
          auto_run_enabled |-> FALSE, auto_run_interval |-> AutoRunIntervalDefault]

NewRow == [NoRow EXCEPT !.exists = TRUE]

\* BaseAgent constructor: status 'idle', metrics all zero, lastRun null.
\* successCount / totalRuns is metrics.successRate (the running mean of the
\* 0/1 samples updateMetrics folds in).
NewInstance(userId, agentId) ==
  [userId |-> userId, agentId |-> agentId, status |-> "idle",
   totalRuns |-> 0, successCount |-> 0, lastRun |-> {}]

\* PerformanceTracker.recordExecution starts an instance's counters at zero.
NoMetrics == [totalExecutions |-> 0, successfulExecutions |-> 0]

FreeProc ==
  [kind |-> "none", pc |-> "free", inst |-> 0, key |-> <<"u1", UnknownAgent>>,
   conflicts |-> {}, wstatus |-> "idle", after |-> "none", rest |-> {},
   ret |-> "none", result |-> "none", wrote |-> FALSE,
   status0 |-> "none", runs0 |-> 0, execs0 |-> 0, evs0 |-> 0]

Slots == 1 .. MaxProcs

FreeSlots == {p \in Slots : procs[p].pc = "free"}

\* The slot a new invocation takes.
NewSlot == CHOOSE p \in FreeSlots : \A q \in FreeSlots : p <= q

Event(type, instanceId, status, result) ==
  [type |-> type, instanceId |-> instanceId, status |-> status, result |-> result]

Emit(log, e) == log (+) SetToBag({e})

Count(log, e) == IF e \in DOMAIN log THEN log[e] ELSE 0

\* agent-result events published for an instance, whatever their payload.
ResultEvents(log, id) ==
  LET es == {e \in DOMAIN log : e.type = "agent-result" /\ e.instanceId = id}
      RECURSIVE Sum(_)
      Sum(S) == IF S = {} THEN 0
                ELSE LET e == CHOOSE x \in S : TRUE IN log[e] + Sum(S \ {e})
  IN Sum(es)

KeyOf(insts, id) == <<insts[id].userId, insts[id].agentId>>

\* ------------------------------------------------- orchestrator functions
\* initializeAgents: the active rows whose type has a class, keyed by id.
LoadedAgents(table) ==
  {r.id : r \in {x \in table : x.is_active /\ getAgentClass(x.type) # "undefined"}}

\* The unit type of a catalog entry (agents.type of the row with that id).
UnitType(agentId) ==
  IF \E r \in agentsTable : r.id = agentId
  THEN (CHOOSE r \in agentsTable : r.id = agentId).type
  ELSE "undefined"

\* checkConflicts as it would be with the rule looked up under the unit's
\* type name, which is what the rule table is keyed by.
checkConflictsByType(insts, id) ==
  IF UnitType(insts[id].agentId) \notin DOMAIN coordinationRules THEN {}
  ELSE LET rules == coordinationRules[UnitType(insts[id].agentId)] IN
       { [type |-> "agent-conflict", instance1 |-> id, instance2 |-> o,
          severity |-> "medium"] :
         o \in {x \in DOMAIN insts :
                  /\ insts[x].userId = insts[id].userId
                  /\ insts[x].status = "running"
                  /\ UnitType(insts[x].agentId) \in rules.conflicts} }

\* checkConflicts: the rule is looked up under instance.agentId, and the
\* rule's conflict list is matched against the other instances' agentId.
\* Every instance of the map is scanned, the candidate included.
checkConflicts(insts, id) ==
  IF insts[id].agentId \notin DOMAIN coordinationRules THEN {}
  ELSE LET rules == coordinationRules[insts[id].agentId] IN
       { [type |-> "agent-conflict", instance1 |-> id, instance2 |-> o,
          severity |-> "medium"] :
         o \in {x \in DOMAIN insts :
                  /\ insts[x].userId = insts[id].userId
                  /\ insts[x].status = "running"
                  /\ insts[x].agentId \in rules.conflicts} }

\* A resolver that looks at the rule table's priorities: the candidate is
\* queued when its priority number is above the other instance's.
ConflictResolverResolveByPriority(conflict) ==
  IF /\ conflict.type = "agent-conflict"
     /\ coordinationRules[agentInstances[conflict.instance1].agentId].priority
          <= coordinationRules[agentInstances[conflict.instance2].agentId].priority
  THEN [action |-> "pause", target |-> conflict.instance2]
  ELSE [action |-> "queue", target |-> 0]

\* ConflictResolver.resolve
ConflictResolverResolve(conflict) ==
  IF conflict.type = "agent-conflict"
  THEN [action |-> "pause", target |-> conflict.instance2]
  ELSE [action |-> "queue", target |-> 0]

\* pauseAgent acts only if the instance object has a pause method; BaseAgent
\* and its four subclasses define none.
HasPauseMethod(inst) == FALSE

\* The instances pauseAgent acts on while resolveConflicts walks the list.
PauseTargets(insts, conflicts) ==
  {c.instance2 : c \in {x \in conflicts : ConflictResolverResolve(x).action = "pause"}}
    \cap {i \in DOMAIN insts : HasPauseMethod(insts[i])}

\* updateAgentStatus, line 205: the in-memory half.
SetStatus(insts, id, status) ==
  IF id \in DOMAIN insts THEN [insts EXCEPT ![id].status = status] ELSE insts

\* updateAgentStatus without its early return: the event goes out whether or
\* not the id names an instance.
StatusChangedUnguarded(log, insts, id, status) ==
  Emit(log, Event("agent-status-changed", id, status, "none"))

\* updateAgentStatus, lines 202-203 and 213-218: the status event goes out
\* for an instance that is in the map; for any other id the function has
\* returned before it.
StatusChanged(log, insts, id, status) ==
  IF id \in DOMAIN insts
  THEN Emit(log, Event("agent-status-changed", id, status, "none"))
  ELSE log

\* The value the UPDATE binds for $1: undefined is sent as NULL.
DbStatus(status) == IF status = "undefined" THEN "NULL" ELSE status

\* The UPDATE with its WHERE clause naming the agent only: every user's row
\* of that agent is written.
DbUpdateStatusOfAgent(db, key, status, t) ==
  [k \in DOMAIN db |->
     IF db[k].exists /\ k[2] = key[2]
     THEN [db[k] EXCEPT !.status = DbStatus(status),
                        !.last_run = IF status = "idle" THEN {t} ELSE @]
     ELSE db[k]]

\* updateAgentStatus, lines 207-211: the UPDATE of the (user, agent) row.
DbUpdateStatus(db, key, status, t) ==
  IF db[key].exists
  THEN [db EXCEPT ![key].status = DbStatus(status),
                  ![key].last_run = IF status = "idle" THEN {t} ELSE @]
  ELSE db

\* resolveConflicts: pauseAgent on each paused target (status, row, event).
RECURSIVE PauseAll(_, _)
PauseAll(state, targets) ==
  IF targets = {} THEN state
  ELSE LET i == CHOOSE x \in targets : TRUE IN
       PauseAll([insts |-> SetStatus(state.insts, i, "paused"),
                 db    |-> DbUpdateStatus(state.db, KeyOf(state.insts, i), "paused", state.t),
                 log   |-> StatusChanged(state.log, state.insts, i, "paused"),
                 t     |-> state.t],
                targets \ {i})

\* updateMetrics counting successes only: a failed run is not a run.
updateMetricsOfSuccesses(inst, success, t) ==
  [inst EXCEPT !.totalRuns = @ + (IF success THEN 0 ELSE 1),
               !.successCount = @ + (IF success THEN 1 ELSE 0),
               !.lastRun = {t}]

\* updateMetrics folding in a 1 whatever the outcome.
updateMetricsAllSuccesses(inst, success, t) ==
  [inst EXCEPT !.totalRuns = @ + 1,
               !.successCount = @ + 1,
               !.lastRun = {t}]

\* BaseAgent.updateMetrics
updateMetrics(inst, success, t) ==
  [inst EXCEPT !.totalRuns = @ + 1,
               !.successCount = @ + (IF success THEN 1 ELSE 0),
               !.lastRun = {t}]

\* PerformanceTracker.recordExecution: a result object without an error
\* field counts as a success.
recordExecution(metrics, id) ==
  [metrics EXCEPT ![id].totalExecutions = @ + 1,
                  ![id].successfulExecutions = @ + 1]

\* The SELECT with the comparison turned to "at least the interval ago".
AutoRunRowsAtInterval(db, table, t) ==
  {k \in Keys :
     /\ db[k].exists
     /\ k[2] \in {r.id : r \in table}
     /\ db[k].auto_run_enabled
     /\ db[k].status = "idle"
     /\ \/ db[k].last_run = {}
        \/ \E l \in db[k].last_run : l <= t - db[k].auto_run_interval}

\* The scheduler's SELECT: rows joined to the agents table that are enabled,
\* idle, and never run or last run before now - interval.
AutoRunRows(db, table, t) ==
  {k \in Keys :
     /\ db[k].exists
     /\ k[2] \in {r.id : r \in table}
     /\ db[k].auto_run_enabled
     /\ db[k].status = "idle"
     /\ \/ db[k].last_run = {}
        \/ \E l \in db[k].last_run : l < t - db[k].auto_run_interval}


\* ------------------------------------------------------------------- Init
\* The state the constructor leaves: empty maps, initializeAgents awaiting
\* its query, the scheduler registered and isRunning set.
InitWith(catalogs, us, when) ==
  /\ agentsTable \in catalogs
  /\ users = us
  /\ arrivals = when
  /\ initPc = "pending"
  /\ agents = {}
  /\ agentInstances = << >>
  /\ tracker = [i \in 1 .. MaxEvents |-> NoMetrics]
  /\ executed = [i \in 1 .. MaxEvents |-> [returned |-> 0, threw |-> 0]]
  /\ user_agents = [k \in Keys |-> NoRow]
  /\ now = 0
  /\ ioLog = EmptyBag
  /\ emitted = EmptyBag
  /\ procs = [p \in Slots |-> FreeProc]
  /\ events = 0

Init == InitWith(Catalogs, {"u1"}, "any")

\* Nothing is under way: the catalog is loaded and no invocation is in flight.
Quiet == initPc = "done" /\ \A p \in Slots : procs[p].pc = "free"

\* A request can arrive now.
Arrives == arrivals = "any" \/ Quiet

\* A runAgent call can arrive now: also while one other runAgent call, and
\* nothing else, is in flight and awaits its execute(), so that two runs
\* overlap.
ArrivesOnRuns ==
  \/ Arrives
  \/ /\ arrivals = "runs"
     /\ initPc = "done"
     /\ \A p, q \in Slots \ FreeSlots :
          p = q /\ procs[p].kind = "run" /\ procs[p].pc = "execute"

\* startScheduler sets isRunning once and nothing clears it.
isRunning == TRUE

\* Users are interchangeable: the first one to own anything is called u1.
KnownUsers ==
  {"u1"} \cup
  (IF \/ \E i \in DOMAIN agentInstances : agentInstances[i].userId = "u1"
      \/ \E k \in Keys : user_agents[k].exists /\ k[1] = "u1"
   THEN users ELSE {})

\* The environment does one more thing.
Cost(n) == events + n <= MaxEvents /\ events' = events + n

\* A request arrives, or cron fires.
Happens == Arrives /\ Cost(1)

\* A database statement resolves, or rejects (which the environment does).
DbAnswer(ok) == Cost(IF ok THEN 0 ELSE 1)

\* Invocation p has run one segment and is now np.
Settle(p, np) == procs' = [procs EXCEPT ![p] = np]

\* A request served in one segment, with no invocation left behind.
Served == UNCHANGED procs

\* How an invocation ends: what its caller gets.
Done(proc, ret) == [proc EXCEPT !.pc = "done", !.ret = ret]

\* ---------------------------------------------------------------- actions
\* initializeAgents, after its query resolves (ok) or rejects.
InitializeAgents ==
  /\ initPc = "pending"
  /\ initPc' = "done"
  /\ \E ok \in BOOLEAN :
       /\ DbAnswer(ok)
       /\ agents' = IF ok THEN LoadedAgents(agentsTable) ELSE {}
  /\ Served
  /\ UNCHANGED <<agentsTable, users, arrivals, executed, agentInstances, tracker, user_agents, now, ioLog,
                 emitted>>

\* A lookup that finds a definition under every id.
RegisteredAlways(loaded, agentId) == TRUE

\* createAgentInstance, lines 83-84: this.agents.get(agentId) finds a
\* definition.
Registered(loaded, agentId) == agentId \in loaded

\* createAgentInstance, lines 83-100: look the agent up, build the instance
\* under a fresh uuid, store it in the maps; the INSERT is then awaited.
Created(insts, userId, agentId) == Append(insts, NewInstance(userId, agentId))

\* createAgentInstance called by an API client.
CreateCall(userId, agentId) ==
  /\ Happens
  /\ FreeSlots # {}
  /\ userId \in KnownUsers
  /\ IF ~Registered(agents, agentId)
     THEN /\ Settle(NewSlot, Done([FreeProc EXCEPT !.kind = "create",
                                                   !.key = <<userId, agentId>>],
                                  "agent-not-found"))
          /\ UNCHANGED agentInstances
     ELSE /\ agentInstances' = Created(agentInstances, userId, agentId)
          /\ Settle(NewSlot, [FreeProc EXCEPT !.kind = "create", !.pc = "insert",
                                              !.inst = Len(agentInstances) + 1,
                                              !.key = <<userId, agentId>>])
  /\ UNCHANGED <<agentsTable, users, arrivals, executed, initPc, agents, tracker, user_agents, now, ioLog,
                 emitted>>

\* runAgent, lines 128-134: the instance is in the map; checkConflicts runs
\* to its end before the first await gives up the thread.
\* (runs0, execs0 and evs0 remember the counters the call found.)
RunStarted(proc, id, insts, log) ==
  [proc EXCEPT !.pc = "resolve", !.inst = id,
               !.conflicts = checkConflicts(insts, id),
               !.runs0 = insts[id].totalRuns,
               !.execs0 = tracker[id].totalExecutions,
               !.evs0 = ResultEvents(log, id)]

\* The ids a caller can hold: createAgentInstance has returned them (the
\* uuid is made inside it, and agent-created is emitted just before the
\* return).
HandedOut == {i \in DOMAIN agentInstances :
                   Event("agent-created", i, "none", "none") \in DOMAIN emitted}

\* runAgent called by an API client.  An id above the ids handed out stands
\* for any id that is not in the map: the lookup fails, the catch block
\* calls updateAgentStatus(instanceId, 'error'), which finds no instance
\* either and returns before its UPDATE, and the error is rethrown.
RunCall(id) ==
  /\ ArrivesOnRuns
  /\ Cost(1)
  /\ FreeSlots # {}
  /\ id \in HandedOut \/ id \notin DOMAIN agentInstances
  /\ IF id \in DOMAIN agentInstances
     THEN /\ Settle(NewSlot, RunStarted([FreeProc EXCEPT !.kind = "run"], id,
                                        agentInstances, ioLog))
          /\ UNCHANGED <<agentInstances, ioLog>>
     ELSE /\ agentInstances' = SetStatus(agentInstances, id, "error")
          /\ ioLog' = StatusChanged(ioLog, agentInstances, id, "error")
          /\ Settle(NewSlot, Done([FreeProc EXCEPT !.kind = "run", !.inst = id],
                                  "instance-not-found"))
  /\ UNCHANGED <<agentsTable, users, arrivals, executed, initPc, agents, tracker, user_agents, now,
                 emitted>>

\* createAgentInstance, lines 103-119, when the awaited INSERT ... ON
\* CONFLICT DO UPDATE SET settings resolves or rejects.  A scheduler tick
\* goes straight on to runAgent with the id it got back; a rejected INSERT
\* is rethrown, and in a tick lands in the scheduler's catch.
InsertDone(p) ==
  /\ procs[p].pc = "insert"
  /\ \E ok \in BOOLEAN :
       LET proc == procs[p]
           id   == proc.inst
           log  == Emit(ioLog, Event("agent-status-changed", id, "idle", "none"))
       IN /\ DbAnswer(ok)
          /\ IF ok
             THEN /\ user_agents' = IF user_agents[proc.key].exists THEN user_agents
                                    ELSE [user_agents EXCEPT ![proc.key] = NewRow]
                  /\ emitted' = Emit(emitted, Event("agent-created", id, "none", "none"))
                  /\ ioLog' = log
                  /\ Settle(p, IF proc.kind = "create" THEN Done(proc, "ok")
                               ELSE RunStarted(proc, id, agentInstances, log))
             ELSE /\ Settle(p, Done(proc, IF proc.kind = "create" THEN "db-error"
                                          ELSE "tick-aborted"))
                  /\ UNCHANGED <<user_agents, emitted, ioLog>>
  /\ UNCHANGED <<agentsTable, users, arrivals, executed, initPc, agents, agentInstances, tracker, now>>

\* runAgent, lines 135-140: resolveConflicts over the conflicts found (each
\* resolution of an agent-conflict is a pauseAgent of the other instance,
\* anything else a queueAgent of the candidate), then the in-memory half of
\* updateAgentStatus(instanceId, 'running'); its UPDATE is then awaited.
Resolve(p) ==
  /\ procs[p].pc = "resolve"
  /\ LET proc    == procs[p]
         id      == proc.inst
         paused  == PauseAll([insts |-> agentInstances, db |-> user_agents,
                              log |-> ioLog, t |-> now],
                             PauseTargets(agentInstances, proc.conflicts))
         queued  == {c \in proc.conflicts : ConflictResolverResolve(c).action = "queue"}
     IN /\ agentInstances' = SetStatus(paused.insts, id, "running")
        /\ user_agents' = paused.db
        /\ ioLog' = paused.log
        /\ emitted' = IF queued = {} THEN emitted
                      ELSE Emit(emitted, Event("agent-queued", id, "none", "none"))
        /\ Settle(p, [proc EXCEPT !.pc = "dbwrite", !.wstatus = "running",
                                  !.after = "execute"])
  /\ UNCHANGED <<agentsTable, users, arrivals, executed, initPc, agents, tracker, now, events>>

\* BaseAgent.run while execute is awaited, then execute returning: the
\* metrics are updated and the finally block sets status 'idle'; runAgent
\* records the execution and starts updateAgentStatus(instanceId, 'idle').
ExecuteReturns(p) ==
  /\ procs[p].pc = "execute"
  /\ \E r \in Payloads :
       LET proc == procs[p]
           id   == proc.inst
           ran  == [agentInstances EXCEPT ![id] =
                      [updateMetrics(@, TRUE, now) EXCEPT !.status = "idle"]]
       IN /\ agentInstances' = SetStatus(ran, id, "idle")
          /\ tracker' = recordExecution(tracker, id)
          /\ executed' = [executed EXCEPT ![id].returned = @ + 1]
          /\ Settle(p, [proc EXCEPT !.pc = "dbwrite", !.wstatus = "idle",
                                    !.after = "finish-ok", !.result = r])
  /\ UNCHANGED <<agentsTable, users, arrivals, initPc, agents, user_agents, now, ioLog, emitted,
                 events>>

\* execute throwing: BaseAgent.run updates the metrics, its finally block
\* sets status 'idle', and the error travels to runAgent's catch.
ExecuteThrows(p) ==
  /\ procs[p].pc = "execute"
  /\ agentInstances' = [agentInstances EXCEPT ![procs[p].inst] =
                          [updateMetrics(@, FALSE, now) EXCEPT !.status = "idle"]]
  /\ executed' = [executed EXCEPT ![procs[p].inst].threw = @ + 1]
  /\ Settle(p, [procs[p] EXCEPT !.pc = "caught"])
  /\ UNCHANGED <<agentsTable, users, arrivals, initPc, agents, tracker, user_agents, now, ioLog,
                 emitted, events>>

\* runAgent's catch, lines 160-162: updateAgentStatus(instanceId, 'error').
RunCatch(p) ==
  /\ procs[p].pc = "caught"
  /\ agentInstances' = SetStatus(agentInstances, procs[p].inst, "error")
  /\ Settle(p, [procs[p] EXCEPT !.pc = "dbwrite", !.wstatus = "error",
                                !.after = "finish-error"])
  /\ UNCHANGED <<agentsTable, users, arrivals, executed, initPc, agents, tracker, user_agents, now, ioLog,
                 emitted, events>>

\* What follows updateAgentStatus in its caller once the UPDATE has settled.
\*   execute:      instance.run sets status 'running' and awaits execute
\*   finish-ok:    runAgent lines 152-159, the completion events and return
\*   finish-error: runAgent line 163, the rethrow
\*   socket:       the socket handler's own io.emit of what it was sent
\* A scheduler tick awaits runAgent inside its for loop, inside one try: a
\* result lets the loop go on, an error ends the tick in the catch.
AfterWrite(proc) ==
  CASE proc.after = "execute" -> [proc EXCEPT !.pc = "execute"]
    [] proc.after = "finish-ok" ->
         IF proc.kind = "tick" /\ proc.rest # {}
         THEN [proc EXCEPT !.pc = "loop"]
         ELSE Done(proc, "ok")
    [] proc.after = "finish-error" ->
         Done(proc, IF proc.kind = "tick" THEN "tick-aborted" ELSE "execution-failed")
    [] OTHER -> Done(proc, "ok")

\* updateAgentStatus, lines 207-221, when the awaited UPDATE resolves (the
\* row changes, the status event goes out) or rejects (caught and logged:
\* no row change and no event), and the caller's next segment.
DbWrite(p) ==
  /\ procs[p].pc = "dbwrite"
  /\ \E ok \in BOOLEAN :
       LET proc == procs[p]
           id   == proc.inst
           log  == IF ok THEN StatusChanged(ioLog, agentInstances, id, proc.wstatus)
                   ELSE ioLog
       IN /\ DbAnswer(ok)
          /\ user_agents' = IF ok
                            THEN DbUpdateStatus(user_agents, KeyOf(agentInstances, id),
                                                proc.wstatus, now)
                            ELSE user_agents
          /\ agentInstances' = IF proc.after = "execute"
                               THEN SetStatus(agentInstances, id, "running")
                               ELSE agentInstances
          /\ ioLog' = CASE proc.after = "finish-ok" ->
                             Emit(log, Event("agent-result", id, "none", proc.result))
                        [] proc.after = "socket" ->
                             Emit(log, Event("agent-status-changed", id, "undefined", "none"))
                        [] OTHER -> log
          /\ emitted' = IF proc.after = "finish-ok"
                        THEN Emit(emitted, Event("agent-completed", id, "none", proc.result))
                        ELSE emitted
          /\ Settle(p, AfterWrite([proc EXCEPT !.wrote = ok]))
  /\ UNCHANGED <<agentsTable, users, arrivals, executed, initPc, agents, tracker, now>>

\* How long the model lets the scheduler sit between two firings that
\* matter: a minute, a whole default interval, or a minute more than that.
Minutes == {1, AutoRunIntervalDefault, AutoRunIntervalDefault + 1}

\* The cron callback, lines 239-251: a minute has passed; unless isRunning
\* is false the SELECT is awaited, and its rows are walked by the loop.  A
\* rejected SELECT lands in the catch.  A firing d minutes after the last
\* one stands for d firings of which the first d - 1 found no row to run,
\* and so did nothing (a row the SELECT gives at one minute it gives at
\* every later one, so the last of them tells for all).
Tick ==
  /\ \E d \in Minutes, ok \in BOOLEAN :
       LET rows == IF ok /\ isRunning
                   THEN AutoRunRows(user_agents, agentsTable, now + d) ELSE {}
       IN /\ d > 1 => AutoRunRows(user_agents, agentsTable, now + d - 1) = {}
          /\ now' = now + d
          /\ Arrives
          /\ Cost(IF ok THEN 1 ELSE 2)
          /\ IF rows = {}
             THEN Served
             ELSE /\ FreeSlots # {}
                  /\ Settle(NewSlot, [FreeProc EXCEPT !.kind = "tick", !.pc = "loop",
                                                      !.rest = rows])
  /\ UNCHANGED <<agentsTable, users, arrivals, executed, initPc, agents, agentInstances, tracker, user_agents,
                 ioLog, emitted>>

\* The loop body, lines 253-258: createAgentInstance for the next row (in
\* whatever order the SELECT gave them), whose INSERT is then awaited.  An
\* agent that is not in this.agents makes createAgentInstance throw, which
\* ends the tick in the scheduler's catch.
TickCreate(p) ==
  /\ procs[p].pc = "loop"
  /\ \E k \in procs[p].rest :
       IF ~Registered(agents, k[2])
       THEN /\ Settle(p, Done([procs[p] EXCEPT !.rest = @ \ {k}], "tick-aborted"))
            /\ UNCHANGED agentInstances
       ELSE /\ agentInstances' = Created(agentInstances, k[1], k[2])
            /\ Settle(p, [procs[p] EXCEPT !.pc = "insert", !.key = k,
                                          !.inst = Len(agentInstances) + 1,
                                          !.rest = @ \ {k}])
  /\ UNCHANGED <<agentsTable, users, arrivals, executed, initPc, agents, tracker, user_agents, now, ioLog,
                 emitted, events>>

\* POST /register, createDefaultAgentInstances: a new user gets a row for
\* every active agent, one awaited INSERT after the other inside one try;
\* a rejected statement ends the loop with the rows made so far (in
\* whatever order the SELECT gave the agents).
RegisterRoute(u) ==
  /\ Arrives
  /\ u \in KnownUsers
  /\ \A k \in Keys : k[1] = u => ~user_agents[k].exists
  /\ LET active == {r.id : r \in {x \in agentsTable : x.is_active}} IN
     \E ins \in SUBSET active :
       /\ Cost(IF ins = active THEN 1 ELSE 2)
       /\ user_agents' = [k \in Keys |->
                            IF k[1] = u /\ k[2] \in ins THEN NewRow ELSE user_agents[k]]
  /\ Served
  /\ UNCHANGED <<agentsTable, users, arrivals, executed, initPc, agents, agentInstances, tracker, now, ioLog,
                 emitted>>

\* A route that answers 200 whether or not its UPDATE found a row.
RouteReplyFoundOrNot(ok, found) == IF ok THEN "ok" ELSE "db-error"

\* The reply of a route whose UPDATE ... RETURNING * was answered with
\* these rows, or rejected: 200, 404 'Agent not found', or 500.
RouteReply(ok, found) ==
  IF ~ok THEN "db-error" ELSE IF found THEN "ok" ELSE "not-found"

\* POST /:agentId/pause: UPDATE user_agents SET status = 'paused' on the
\* row of (user, agent), whatever its status; no row is a 404, a rejected
\* statement a 500.  (status0 remembers the status the call found.)
PauseRoute(k) ==
  /\ Arrives
  /\ FreeSlots # {}
  /\ k[1] \in KnownUsers
  /\ \E ok \in BOOLEAN :
       /\ Cost(IF ok THEN 1 ELSE 2)
       /\ user_agents' = IF ok /\ user_agents[k].exists
                         THEN [user_agents EXCEPT ![k].status = "paused"]
                         ELSE user_agents
       /\ Settle(NewSlot, Done([FreeProc EXCEPT !.kind = "pause-route", !.key = k,
                                                !.status0 = IF user_agents[k].exists
                                                            THEN user_agents[k].status
                                                            ELSE "none"],
                               RouteReply(ok, user_agents[k].exists)))
  /\ UNCHANGED <<agentsTable, users, arrivals, executed, initPc, agents, agentInstances, tracker, now, ioLog,
                 emitted>>

\* pauseAgent called on the orchestrator: it acts only on an instance that
\* is in the map and has a pause method, and returns without an error
\* either way.  (An id above the ids handed out stands for any unknown id.)
PauseCall(id) ==
  /\ Happens
  /\ FreeSlots # {}
  /\ id \in HandedOut \/ id \notin DOMAIN agentInstances
  /\ LET paused == PauseAll([insts |-> agentInstances, db |-> user_agents,
                             log |-> ioLog, t |-> now],
                            {i \in {id} \cap DOMAIN agentInstances :
                               HasPauseMethod(agentInstances[i])})
     IN /\ agentInstances' = paused.insts
        /\ user_agents' = paused.db
        /\ ioLog' = paused.log
  /\ Settle(NewSlot, Done([FreeProc EXCEPT !.kind = "pause", !.inst = id], "ok"))
  /\ UNCHANGED <<agentsTable, users, arrivals, executed, initPc, agents, tracker, now, emitted>>

\* POST /:agentId/resume: UPDATE user_agents SET status = 'idle'.
ResumeRoute(k) ==
  /\ Happens
  /\ user_agents[k].exists
  /\ user_agents' = [user_agents EXCEPT ![k].status = "idle"]
  /\ Served
  /\ UNCHANGED <<agentsTable, users, arrivals, executed, initPc, agents, agentInstances, tracker, now, ioLog,
                 emitted>>

\* PUT /:agentId/settings with autoRunEnabled in the body and no
\* autoRunInterval (COALESCE keeps the row's interval).
SettingsRoute(k, enabled) ==
  /\ Happens
  /\ user_agents[k].exists
  /\ user_agents[k].auto_run_enabled # enabled
  /\ user_agents' = [user_agents EXCEPT ![k].auto_run_enabled = enabled]
  /\ Served
  /\ UNCHANGED <<agentsTable, users, arrivals, executed, initPc, agents, agentInstances, tracker, now, ioLog,
                 emitted>>

\* socket 'agent-status-update' sent the id of an instance as its data:
\* updateAgentStatus(data) runs with status undefined.
SocketStatusUpdate(id) ==
  /\ Happens
  /\ FreeSlots # {}
  /\ id \in HandedOut
  /\ agentInstances' = SetStatus(agentInstances, id, "undefined")
  /\ Settle(NewSlot, [FreeProc EXCEPT !.kind = "socket", !.pc = "dbwrite",
                                      !.inst = id, !.wstatus = "undefined",
                                      !.after = "socket"])
  /\ UNCHANGED <<agentsTable, users, arrivals, executed, initPc, agents, tracker, user_agents, now, ioLog,
                 emitted>>

\* The caller's continuation takes the result or the error; the invocation
\* is over.
Return(p) ==
  /\ procs[p].pc = "done"
  /\ procs' = [procs EXCEPT ![p] = FreeProc]
  /\ UNCHANGED <<agentsTable, users, arrivals, executed, initPc, agents, agentInstances, tracker,
                 user_agents, now, ioLog, emitted, events>>

\* Requests arriving from outside: API calls, routes, socket messages, cron.
Request ==
  \/ \E u \in Users, a \in AgentIds : CreateCall(u, a)
  \/ \E id \in 1 .. Len(agentInstances) + 1 : RunCall(id)
  \/ Tick
  \/ \E u \in Users : RegisterRoute(u)
  \/ \E k \in Keys : PauseRoute(k)
  \/ \E id \in 1 .. Len(agentInstances) + 1 : PauseCall(id)
  \/ \E k \in Keys : ResumeRoute(k)
  \/ \E k \in Keys, e \in BOOLEAN : SettingsRoute(k, e)
  \/ \E id \in 1 .. Len(agentInstances) : SocketStatusUpdate(id)

\* The next segment of something already under way.
Continue ==
  \/ InitializeAgents
  \/ \E p \in Slots : InsertDone(p)
  \/ \E p \in Slots : Resolve(p)
  \/ \E p \in Slots : DbWrite(p)
  \/ \E p \in Slots : ExecuteReturns(p)
  \/ \E p \in Slots : ExecuteThrows(p)
  \/ \E p \in Slots : RunCatch(p)
  \/ \E p \in Slots : TickCreate(p)
  \/ \E p \in Slots : Return(p)

Next == Request \/ Continue

Spec == Init /\ [][Next]_vars

\* One request at a time: each is served to its end before the next arrives.
SpecSeq == InitWith(Catalogs, {"u1"}, "one") /\ [][Next]_vars

\* One request at a time, but a runAgent call may arrive during another's
\* execute().
SpecRuns == InitWith(Catalogs, {"u1"}, "runs") /\ [][Next]_vars

\* As SpecRuns with a second user, under the catalog with which the rule
\* lookup finds its entries.
SpecRunsUsers == InitWith({NamedCatalog}, Users, "runs") /\ [][Next]_vars

\* ------------------------------------------------------------- properties
\* Two unit types the rule table sets against each other.
Conflicting(x, y) ==
  /\ x \in DOMAIN coordinationRules
  /\ y \in DOMAIN coordinationRules
  /\ \/ y \in coordinationRules[x].conflicts
     \/ x \in coordinationRules[y].conflicts

\* Two instances of one user whose unit types are in conflict.
InConflict(a, b) ==
  /\ a # b
  /\ agentInstances[a].userId = agentInstances[b].userId
  /\ Conflicting(UnitType(agentInstances[a].agentId), UnitType(agentInstances[b].agentId))

\* Invocation p owes its caller the outcome of a runAgent call.
Returned(p, ret) ==
  procs[p].kind = "run" /\ procs[p].pc = "done" /\ procs[p].ret = ret

\* C1: at any time the execution unit of an instance has at most one
\* invocation in flight, however run calls on that instance interleave.
C1_OneInvocationInFlight ==
  \A p, q \in Slots :
    (p # q /\ procs[p].pc = "execute" /\ procs[q].pc = "execute")
      => procs[p].inst # procs[q].inst

\* C2: the instance registry never holds two instances of one user for the
\* same unit type.
C2_OneInstancePerUserAndType ==
  \A i, j \in DOMAIN agentInstances :
    (/\ i # j
     /\ agentInstances[i].userId = agentInstances[j].userId)
      => UnitType(agentInstances[i].agentId) # UnitType(agentInstances[j].agentId)

\* C3: when an instance b becomes running while an instance a of the same
\* user, of a conflicting unit type, is running, a is paused by then.
C3_RunPausesConflictingInstance ==
  [][\A a, b \in DOMAIN agentInstances :
       (/\ InConflict(a, b)
        /\ agentInstances[a].status = "running"
        /\ agentInstances[b].status # "running"
        /\ agentInstances'[b].status = "running")
         => agentInstances'[a].status = "paused"]_vars

\* C4: no two instances of one user whose unit types conflict are running
\* at the same time.
C4_NoConflictingInstancesRunning ==
  \A a, b \in DOMAIN agentInstances :
    InConflict(a, b)
      => ~(agentInstances[a].status = "running" /\ agentInstances[b].status = "running")

\* This step is one in which an invocation of instance i comes to its end:
\* execute settles, or the status write of the completion does.
OwnCompletion(i) ==
  \E p \in Slots :
    /\ procs[p].inst = i
    /\ procs[p].kind \in {"run", "tick"}
    /\ procs'[p] # procs[p]
    /\ \/ procs[p].pc \in {"execute", "caught"}
       \/ procs[p].pc = "dbwrite" /\ procs[p].after \in {"finish-ok", "finish-error"}

\* C5: a running instance stops being running, in the registry and in its
\* user_agents row, only in a step that completes an invocation of its own.
C5_RunningLeftOnlyByOwnCompletion ==
  [][\A i \in DOMAIN agentInstances :
       /\ (agentInstances[i].status = "running" /\ agentInstances'[i].status # "running")
            => OwnCompletion(i)
       /\ (/\ agentInstances[i].status = "running"
           /\ user_agents[KeyOf(agentInstances, i)].status = "running"
           /\ user_agents'[KeyOf(agentInstances, i)].status # "running")
            => OwnCompletion(i)]_vars

\* C6: while the row of an instance says paused (pause was applied and
\* nothing resumed it), no invocation of its execution unit starts.
C6_NoInvocationStartsWhilePaused ==
  [][\A p \in Slots :
       (procs[p].pc # "execute" /\ procs'[p].pc = "execute")
         => user_agents[KeyOf(agentInstances, procs[p].inst)].status # "paused"]_vars

\* C7: a run that succeeded with nothing interleaved leaves the instance
\* idle with its last-run time set to the time of the run; its run count,
\* and the tracker's, grew by one; the caller holds the unit's result; one
\* completion event more was published on each channel, carrying that
\* result; and a status write the database took left the row idle with
\* last_run set.
C7_SuccessfulRun ==
  \A p \in Slots :
    Returned(p, "ok") =>
      LET i    == procs[p].inst
          inst == agentInstances[i]
          row  == user_agents[KeyOf(agentInstances, i)]
          io   == Event("agent-result", i, "none", procs[p].result)
          done == Event("agent-completed", i, "none", procs[p].result)
      IN /\ inst.status = "idle"
         /\ inst.lastRun = {now}
         /\ inst.totalRuns = procs[p].runs0 + 1
         /\ tracker[i].totalExecutions = procs[p].execs0 + 1
         /\ procs[p].result \in Payloads
         /\ ResultEvents(ioLog, i) = procs[p].evs0 + 1
         /\ Count(ioLog, io) >= 1
         /\ Count(emitted, done) = Count(ioLog, io)
         /\ (procs[p].evs0 = 0 => Count(ioLog, io) = 1)
         /\ (procs[p].wrote /\ row.exists) => (row.status = "idle" /\ row.last_run = {now})

\* A second successful run of an instance has returned, its row written.
C7_Witness ==
  \E p \in Slots :
    /\ Returned(p, "ok")
    /\ procs[p].runs0 >= 1
    /\ procs[p].evs0 >= 1
    /\ procs[p].wrote
    /\ user_agents[KeyOf(agentInstances, procs[p].inst)].exists

\* An event that tells of a failure of instance i: one of a failure type,
\* or a status change to error.
FailureEvents(log, i) ==
  {e \in DOMAIN log :
     /\ e.instanceId = i
     /\ \/ e.type \in {"agent-failed", "agent-error", "run-failed"}
        \/ e.type = "agent-status-changed" /\ e.status = "error"}

\* C8: when the execution unit failed and the error is back with the caller
\* of run, the instance has status error and an event telling of the
\* failure has been published.
C8_FailureSetsErrorAndPublishes ==
  \A p \in Slots :
    Returned(p, "execution-failed") =>
      /\ agentInstances[procs[p].inst].status = "error"
      /\ FailureEvents(ioLog, procs[p].inst) \cup FailureEvents(emitted, procs[p].inst) # {}

\* C9: when the execution unit failed and the error is back with the caller
\* of run, the tracker has counted the execution, and not as a success.
C9_TrackerRecordsFailure ==
  \A p \in Slots :
    Returned(p, "execution-failed") =>
      /\ tracker[procs[p].inst].totalExecutions > procs[p].execs0
      /\ tracker[procs[p].inst].successfulExecutions
           < tracker[procs[p].inst].totalExecutions

\* C10: a run call with an id that is not in the registry ends at once with
\* the instance-not-found error, in a step that changes no instance, no
\* row, no tracker entry and no event log; the call never reaches an
\* execution unit and changes nothing on its way back to the caller.
C10_UnknownInstance ==
  [][\A p \in Slots :
       /\ (/\ procs[p].pc = "free"
           /\ procs'[p].kind = "run"
           /\ procs'[p].inst \notin DOMAIN agentInstances)
            => /\ procs'[p].pc = "done"
               /\ procs'[p].ret = "instance-not-found"
               /\ UNCHANGED <<agentInstances, user_agents, tracker, ioLog, emitted>>
       /\ (procs[p].pc = "done" /\ procs[p].ret = "instance-not-found")
            => /\ procs'[p].pc \in {"done", "free"}
               /\ (procs'[p] # procs[p]
                     => UNCHANGED <<agentInstances, user_agents, tracker, ioLog, emitted>>)]_vars

\* The error of a run call with an unknown id is with its caller, in a
\* state that has instances and published events to leave alone.
C10_Witness ==
  \E p \in Slots :
    /\ Returned(p, "instance-not-found")
    /\ procs[p].inst \notin DOMAIN agentInstances
    /\ agentInstances # << >>
    /\ ioLog # EmptyBag

\* C11: a createAgentInstance call for an agent id that has no loaded
\* definition ends at once with the agent-not-found error, in a step that
\* changes no instance, no row and no event log, and the call changes
\* nothing on its way back to the caller.
C11_UnknownAgent ==
  [][\A p \in Slots :
       /\ (/\ procs[p].pc = "free"
           /\ procs'[p].kind = "create"
           /\ procs'[p].key[2] \notin agents)
            => /\ procs'[p].pc = "done"
               /\ procs'[p].ret = "agent-not-found"
               /\ UNCHANGED <<agentInstances, user_agents, tracker, ioLog, emitted>>
       /\ (procs[p].pc = "done" /\ procs[p].ret = "agent-not-found")
            => /\ procs'[p].pc \in {"done", "free"}
               /\ (procs'[p] # procs[p]
                     => UNCHANGED <<agentInstances, user_agents, tracker, ioLog, emitted>>)]_vars

\* The error of a createAgentInstance call for an unknown agent is with its
\* caller, the catalog loaded, in a state that has an instance, a row and
\* published events to leave alone.
C11_Witness ==
  \E p \in Slots :
    /\ procs[p].kind = "create"
    /\ procs[p].pc = "done"
    /\ procs[p].ret = "agent-not-found"
    /\ procs[p].key[2] = UnknownAgent
    /\ agents # {}
    /\ agentInstances # << >>
    /\ \E k \in Keys : user_agents[k].exists
    /\ ioLog # EmptyBag

\* C12: a createAgentInstance call that succeeds returns the id every
\* earlier successful call for the same (user, agent) pair returned.
C12_SameIdentityForSamePair ==
  \A p \in Slots :
    (procs[p].kind = "create" /\ procs[p].pc = "done" /\ procs[p].ret = "ok")
      => \A j \in HandedOut :
           KeyOf(agentInstances, j) = procs[p].key => j = procs[p].inst

\* A row the scheduler is to select at time t: auto-run enabled, status
\* idle, never run or last run at least its interval ago.
Due(k, t) ==
  /\ user_agents[k].exists
  /\ user_agents[k].auto_run_enabled
  /\ user_agents[k].status = "idle"
  /\ \/ user_agents[k].last_run = {}
     \/ \E l \in user_agents[k].last_run : t - l >= user_agents[k].auto_run_interval

\* This step is a firing of the scheduler whose SELECT was answered (the
\* firing is all the environment did in it).
TickAnswered == now' # now /\ events' = events + 1

\* The rows the firing of this step hands to its loop.
Selected ==
  UNION {procs'[p].rest : p \in {q \in Slots : procs[q].pc = "free" /\ procs'[q].kind = "tick"}}

\* C13: a scheduler firing selects a row if and only if auto-run is
\* enabled, the status is idle, and last_run is null or at least the row's
\* interval before the time of the firing.
C13_TickSelectsDueRows ==
  [][TickAnswered => \A k \in Keys : (k \in Selected) <=> Due(k, now')]_vars

\* A row last run more than its interval before t, or never: what the
\* scheduler's SELECT asks for.
Overdue(k, t) ==
  /\ user_agents[k].exists
  /\ user_agents[k].auto_run_enabled
  /\ user_agents[k].status = "idle"
  /\ \/ user_agents[k].last_run = {}
     \/ \E l \in user_agents[k].last_run : t - l > user_agents[k].auto_run_interval

\* C13, amended: a scheduler firing whose SELECT is answered selects a row
\* if and only if auto-run is enabled, the row's status is idle, and
\* last_run is null or more than the row's interval before the time of the
\* firing; a row last run exactly its interval ago is not selected.
C13_TickSelectsOverdueRows ==
  [][TickAnswered => \A k \in Keys : (k \in Selected) <=> Overdue(k, now')]_vars

\* A firing has selected a row that was last run more than its interval
\* ago.
C13_Witness ==
  \E p \in Slots :
    /\ procs[p].kind = "tick"
    /\ procs[p].pc = "loop"
    /\ \E k \in procs[p].rest :
         \E l \in user_agents[k].last_run : now - l > user_agents[k].auto_run_interval

\* C14: a scheduler firing comes to its end only when every row it
\* selected has been handed to runAgent, whatever became of the rows
\* before it.
C14_TickRunsEverySelectedRow ==
  \A p \in Slots :
    (procs[p].kind = "tick" /\ procs[p].pc = "done") => procs[p].rest = {}

\* What a pause leaves alone: the registry, the tracker, the event logs and
\* every row but that of (user, agent) k.
PauseKeepsAllBut(k) ==
  /\ UNCHANGED <<agentInstances, tracker, ioLog, emitted>>
  /\ \A j \in Keys \ {k} : user_agents'[j] = user_agents[j]

\* C15: a pause that the database answers succeeds whatever it is called
\* on: the row of an already paused instance is left as it is, nothing but
\* the status of the row changes, and a pause of an unknown or idle
\* instance is no error; pauseAgent on the orchestrator returns without an
\* error on every id.
C15_PauseNeverFails ==
  [][\A p \in Slots :
       procs[p].pc = "free" =>
         /\ (procs'[p].kind = "pause-route" /\ procs'[p].ret # "db-error")
              => /\ procs'[p].ret = "ok"
                 /\ PauseKeepsAllBut(procs'[p].key)
                 /\ user_agents[procs'[p].key].status = "paused"
                      => user_agents' = user_agents
         /\ procs'[p].kind = "pause" => procs'[p].ret = "ok"]_vars

\* C15, amended: the pause route changes nothing but the row of its (user,
\* agent) pair; when that row is there and the UPDATE is answered the
\* reply is success and the row differs from before in its status only,
\* which is paused (so a paused row is left as it is); when there is no
\* row the reply is not-found, and when the UPDATE is rejected an error,
\* and no row changes.  pauseAgent on the orchestrator returns without an
\* error on every id, known or not, and changes nothing.
C15_PauseIsIdempotent ==
  [][\A p \in Slots :
       procs[p].pc = "free" =>
         /\ procs'[p].kind = "pause-route"
              => LET k == procs'[p].key IN
                 /\ PauseKeepsAllBut(k)
                 /\ procs'[p].ret \in {"ok", "not-found", "db-error"}
                 /\ procs'[p].ret = "ok"
                      => /\ user_agents[k].exists
                         /\ user_agents'[k] = [user_agents[k] EXCEPT !.status = "paused"]
                 /\ procs'[p].ret = "not-found" => ~user_agents[k].exists
                 /\ procs'[p].ret # "ok" => user_agents'[k] = user_agents[k]
         /\ procs'[p].kind = "pause"
              => /\ procs'[p].ret = "ok"
                 /\ UNCHANGED <<agentInstances, user_agents, tracker, ioLog, emitted>>]_vars

\* The pause route has answered success for a row that was paused already.
C15_Witness ==
  \E p \in Slots :
    /\ procs[p].kind = "pause-route"
    /\ procs[p].pc = "done"
    /\ procs[p].ret = "ok"
    /\ procs[p].status0 = "paused"
    /\ user_agents[procs[p].key].status = "paused"

\* C16: a row whose status is error keeps it until a run of its instance
\* starts (running) or succeeds, or resume is called (idle): no step takes
\* it from error to any other status.
C16_ErrorStaysUntilRunOrResume ==
  [][\A k \in Keys :
       (user_agents[k].exists /\ user_agents[k].status = "error")
         => user_agents'[k].status \in {"error", "running", "idle"}]_vars

Statuses == {"idle", "running", "paused", "error"}

\* C18: the status of every instance in the registry, and of every row of
\* user_agents, is one of idle, running, paused and error.
C18_StatusIsOneOfFour ==
  /\ \A i \in DOMAIN agentInstances : agentInstances[i].status \in Statuses
  /\ \A k \in Keys : user_agents[k].exists => user_agents[k].status \in Statuses

\* The rule table has no entry under the key runAgent looks up for
\* instance i.
NoRule(insts, i) == insts[i].agentId \notin DOMAIN coordinationRules

ConflictsByUnitType(insts, id) ==
  LET t == UnitType(insts[id].agentId)
      against == IF t \in DOMAIN coordinationRules
                 THEN coordinationRules[t].conflicts ELSE {}
  IN { [type |-> "agent-conflict", instance1 |-> id, instance2 |-> o,
        severity |-> "medium"] :
       o \in {x \in DOMAIN insts \ {id} :
                /\ insts[x].userId = insts[id].userId
                /\ insts[x].status = "running"
                /\ UnitType(insts[x].agentId) \in against} }

\* C21: the conflicts a run finds are exactly one record of severity medium
\* for each other instance of the candidate's user that is running and
\* whose unit type is in the candidate's conflict set, and no other record.
C21_ConflictsFoundByUnitType ==
  [][\A p \in Slots :
       (procs[p].pc # "resolve" /\ procs'[p].pc = "resolve")
         => procs'[p].conflicts = ConflictsByUnitType(agentInstances, procs'[p].inst)]_vars

\* C22: a step of a run (called directly or by a scheduler tick) of an
\* instance of one user records no conflict with, and changes neither the
\* instance object (status, metrics), nor the tracker entry, nor the
\* user_agents row (status, last run, auto-run settings) of, any instance
\* of another user.
C22_RunLeavesOtherUsersAlone ==
  [][\A p \in Slots :
       (/\ procs'[p] # procs[p]
        /\ procs'[p].kind \in {"run", "tick"}
        /\ procs'[p].inst \in DOMAIN agentInstances')
         => \A j \in DOMAIN agentInstances :
              agentInstances[j].userId # agentInstances'[procs'[p].inst].userId
                => /\ agentInstances'[j] = agentInstances[j]
                   /\ tracker'[j] = tracker[j]
                   /\ user_agents'[KeyOf(agentInstances, j)]
                        = user_agents[KeyOf(agentInstances, j)]
                   /\ \A c \in procs'[p].conflicts : c.instance2 # j]_vars

\* A run of an instance of one user has set it running, found no conflict
\* and written its status to its row, while an instance of another user, of
\* the very agent the candidate's rule names as a conflict, is running.
C22_Witness ==
  \E p \in Slots : \E j \in DOMAIN agentInstances :
    /\ procs[p].kind = "run"
    /\ procs[p].pc = "execute"
    /\ procs[p].wrote
    /\ procs[p].conflicts = {}
    /\ agentInstances[j].userId # agentInstances[procs[p].inst].userId
    /\ agentInstances[j].status = "running"
    /\ ~NoRule(agentInstances, procs[p].inst)
    /\ agentInstances[j].agentId
         \in coordinationRules[agentInstances[procs[p].inst].agentId].conflicts

\* C23: whatever conflict a run has found, the resolver's answer to it is to
\* pause the other instance of the record, which is not the candidate; the
\* candidate is never queued, whichever of the two has the higher priority
\* in the rule table.
C23_ResolverPausesTheOther ==
  /\ \A p \in Slots : \A c \in procs[p].conflicts :
       /\ c.instance1 = procs[p].inst
       /\ c.instance2 # procs[p].inst
       /\ ConflictResolverResolve(c) = [action |-> "pause", target |-> c.instance2]
  /\ \A e \in DOMAIN emitted : e.type # "agent-queued"

\* A run has gone through its resolution step with a conflict in which the
\* candidate's priority number is above the other instance's.
C23_Witness ==
  \E p \in Slots : \E c \in procs[p].conflicts :
    /\ procs[p].pc = "execute"
    /\ coordinationRules[agentInstances[c.instance1].agentId].priority
         > coordinationRules[agentInstances[c.instance2].agentId].priority

\* C24: the status an instance holds in the registry has been published:
\* once every invocation has come to its end, a status-changed event with
\* the instance and the status it now has is among the events sent.
C24_StatusChangePublished ==
  Quiet => \A i \in HandedOut :
             Count(ioLog, Event("agent-status-changed", i,
                                agentInstances[i].status, "none")) > 0

C26_RuleOfUnitTypeApplied ==
  \A p \in Slots :
    procs[p].pc = "resolve"
      => LET inst == agentInstances[procs[p].inst] IN
         /\ UnitType(inst.agentId) \in DOMAIN coordinationRules
         /\ ~NoRule(agentInstances, procs[p].inst)
         /\ coordinationRules[inst.agentId] = coordinationRules[UnitType(inst.agentId)]

\* C27: no two invocations of execution units are in flight at once for
\* instances of one user and one unit type, whether the runs were called
\* directly or by scheduler ticks.
C27_OneInvocationPerUserAndType ==
  \A p, q \in Slots :
    (p # q /\ procs[p].pc = "execute" /\ procs[q].pc = "execute")
      => ~(/\ agentInstances[procs[p].inst].userId = agentInstances[procs[q].inst].userId
           /\ UnitType(agentInstances[procs[p].inst].agentId)
                = UnitType(agentInstances[procs[q].inst].agentId))

\* C28: whenever no invocation is in progress, every instance of the
\* registry has the status its (user, agent) row of user_agents has.
C28_RegistryStatusIsStoredStatus ==
  Quiet => \A i \in HandedOut :
             user_agents[KeyOf(agentInstances, i)].exists
               => user_agents[KeyOf(agentInstances, i)].status = agentInstances[i].status

\* C29: once every invocation has come to its end, no instance is left
\* running, neither in the registry nor in the user_agents row the
\* scheduler reads.
C29_NothingLeftRunning ==
  Quiet => \A i \in HandedOut :
             /\ agentInstances[i].status # "running"
             /\ user_agents[KeyOf(agentInstances, i)].status # "running"

\* C30: createAgentInstance, called by a client or by a scheduler tick for
\* an agent that initializeAgents loads, fails as 'not found' only once
\* initializeAgents is over (then because its query was rejected), never
\* because the call came while the catalog was still being loaded.
C30_CatalogLoadedBeforeUse ==
  [][\A p \in Slots :
       (/\ procs[p].pc \in {"free", "loop"}
        /\ procs'[p].pc = "done"
        /\ procs'[p].kind \in {"create", "tick"}
        /\ procs'[p].ret \in {"agent-not-found", "tick-aborted"}
        /\ \/ procs'[p].key[2] \in LoadedAgents(agentsTable)
           \/ procs'[p].kind = "tick")
         => initPc = "done"]_vars

====
